---- MODULE Spec2Model ----
(***************************************************************************)
(* FlowPilot: the policy engine (flowpilot/policy/engine.py), the SSH      *)
(* tools that consult it (flowpilot/tools/ssh.py) and the agent loop of    *)
(* the OpenAI-compatible endpoint (flowpilot/mcp/openai_compat.py).        *)
(*                                                                         *)
(* The module holds several specifications over one set of variables:      *)
(*   SpecEngine  the confirm-token table under direct engine calls, with a *)
(*               wall clock;                                               *)
(*   SpecSsh     concurrent ssh_exec invocations on the shared engine;     *)
(*   SpecRules   PolicyEngine.check over bounded rule lists;               *)
(*   SpecLoop    _agent_loop driving a provider and the tools (and         *)
(*               SpecLoopFair, the same under fair scheduling);            *)
(*   SpecBatch   ssh_exec_batch's fan-out over its hosts;                  *)
(*   SpecRegistry  a ToolRegistry under register calls;                    *)
(*   SpecExec    ToolExecutor.execute_tool_calls and the audit store;      *)
(*   SpecChat    the agent loop of the CLI's chat command.                 *)
(* Every specification leaves the variables of the others at their initial *)
(* values.                                                                 *)
(***************************************************************************)
EXTENDS Integers, Sequences, FiniteSets, TLC

VARIABLES
    policies,        \* PolicyEngine.config.policies: the ordered rule list
    confirm_tokens,  \* PolicyEngine._confirm_tokens: token -> stored record
    next_token,      \* the next value secrets.token_hex will return (fresh)
    now,             \* time.time(), in seconds
    ticks,           \* how many times the clock has advanced
    ret,             \* the return value of the last direct engine call
    minted_at,       \* history: token -> the time it was minted
    consumed,        \* history: token -> number of successful consumes
    sess,            \* the concurrent ssh_exec invocations, one per session
    authorized,      \* history: token -> gated commands started with it
    checked,         \* the last call of check: its inputs and its decision
    provider,        \* which LLMProvider the request was routed to
    max_iterations,  \* ChatCompletionRequest.max_iterations
    loop,            \* _agent_loop: position, iteration, response, tool_results
    conversation,    \* _agent_loop: the message list
    final_response,  \* _agent_loop: final_response, at the end what it returns
    emitted,         \* history: the tool-call ids of each assistant turn
    tool_log,        \* history: the tool calls made and what became of them
    batch,           \* ssh_exec_batch: its hosts, its tasks and its result
    tools,           \* ToolRegistry._tools: tool name -> the registered tool
    first_tool,      \* history: tool name -> the tool first registered under it
    exec,            \* ToolExecutor.execute_tool_calls: position, calls, results
    audit_rows,      \* the audit store's tool_calls table, in insertion order
    redeemed_for,    \* history: token -> the ssh_exec call it let through
    replayed,        \* history: the status the last repeat of such a call got
    chat             \* _chat_async: position, iteration, messages, audit session row

engineVars == <<policies, confirm_tokens, next_token, now, ticks, ret,
                minted_at, consumed, sess, authorized>>

ruleVars == <<checked>>

loopVars == <<provider, max_iterations, loop, conversation, final_response,
              emitted, tool_log>>

batchVars == <<batch>>

registryVars == <<tools, first_tool>>

execVars == <<exec, audit_rows>>

replayVars == <<redeemed_for, replayed>>

chatVars == <<chat>>

vars == <<engineVars, ruleVars, loopVars, batchVars, registryVars, execVars, replayVars, chatVars>>

(***************************************************************************)
(* Bounds of the model.                                                    *)
(***************************************************************************)
MaxTokens == 3
MaxTicks == 1
NumSessions == 2
MaxIterations == 2
MaxRules == 2
MaxHosts == 3
MaxTools == 2
MaxCalls == 2
MaxChatIterations == 4

(***************************************************************************)
(* Program constants.                                                      *)
(***************************************************************************)
TOKEN_TTL_SECONDS == 300

None == "None"
Raise == "Raise"

\* No token (the argument was not passed, the decision carries none), and a
\* token no check ever minted ("invalid_token" in the tests).
NoToken == 0
BogusToken == -1
TokenIds == 1..MaxTokens
Sessions == 1..NumSessions

\* The amounts the wall clock advances by between two calls.
TickSteps == {300, 301}

(***************************************************************************)
(* action_classifier.py.  A command is given by its text; the two pattern  *)
(* tables are the sets of the model's commands each table matches.         *)
(***************************************************************************)
Commands == {"uptime", "systemctl stop nginx", "rm -rf /"}

DESTRUCTIVE_KEYWORDS == {"rm -rf /"}

WRITE_KEYWORDS == {"systemctl stop nginx", "rm -rf /"}

classify_command(command) ==
    IF command \in DESTRUCTIVE_KEYWORDS THEN "destructive"
    ELSE IF command \in WRITE_KEYWORDS THEN "write"
    ELSE "read"

(***************************************************************************)
(* config/schema.py: hosts and policy rules.                               *)
(***************************************************************************)
\* config.hosts: alias -> env of the HostConfig.
ConfigHosts == [h \in {"prod-1", "dev-1"} |-> IF h = "prod-1" THEN "prod" ELSE "dev"]

HostAliases == DOMAIN ConfigHosts \cup {"ghost"}

\* A condition without target_count (None, or the empty string).
NoComparator == <<>>

PolicyCondition(env, action_type, target_count) ==
    [env |-> env, action_type |-> action_type, target_count |-> target_count]

PolicyRule(name, condition, effect, message) ==
    [name |-> name, condition |-> condition, effect |-> effect, message |-> message]

\* PolicyEffect: the values the enum accepts.
PolicyEffect == {"allow", "require_confirm", "deny"}

\* The rule list of the unit tests' mock_config.
MockPolicies ==
    << PolicyRule("prod_write_protection",
                  PolicyCondition("prod", "write", NoComparator), "require_confirm", "msg_confirm"),
       PolicyRule("destructive_deny",
                  PolicyCondition("prod", "destructive", NoComparator), "deny", "msg_deny"),
       PolicyRule("batch_operation_limit",
                  PolicyCondition(None, None, <<">", "5">>), "require_confirm", "msg_batch") >>

(***************************************************************************)
(* PolicyEngine._check_target_count.  A comparator is the string of the    *)
(* rule, as the sequence of its characters; int() of a string that is not  *)
(* a decimal number raises ValueError.                                     *)
(***************************************************************************)
Digits == {"0", "1", "2", "3", "4", "5", "6", "7", "8", "9"}

DigitValue(c) ==
    CASE c = "0" -> 0 [] c = "1" -> 1 [] c = "2" -> 2 [] c = "3" -> 3 [] c = "4" -> 4
      [] c = "5" -> 5 [] c = "6" -> 6 [] c = "7" -> 7 [] c = "8" -> 8 [] c = "9" -> 9

RECURSIVE DecimalValue(_)
DecimalValue(s) ==
    IF s = <<>> THEN 0
    ELSE 10 * DecimalValue(SubSeq(s, 1, Len(s) - 1)) + DigitValue(s[Len(s)])

\* What int() raises on a string that is no number.
ValueError == -1

\* int(s): the number, or ValueError.
ParseInt(s) ==
    IF s # <<>> /\ \A i \in 1..Len(s) : s[i] \in Digits THEN DecimalValue(s) ELSE ValueError

startswith(s, prefix) ==
    Len(s) >= Len(prefix) /\ SubSeq(s, 1, Len(prefix)) = prefix

Rest(s, n) == SubSeq(s, n + 1, Len(s))

\* A Python bool as a value that can stand beside Raise.
Bool(b) == IF b THEN "True" ELSE "False"

Compare(count, op, threshold) ==
    IF threshold = ValueError THEN Raise
    ELSE CASE op = ">=" -> Bool(count >= threshold)
           [] op = ">"  -> Bool(count > threshold)
           [] op = "<=" -> Bool(count <= threshold)
           [] op = "<"  -> Bool(count < threshold)
           [] op = "==" -> Bool(count = threshold)

\* "True", "False" or Raise.
check_target_count(count, condition) ==
    IF startswith(condition, <<">", "=">>) THEN Compare(count, ">=", ParseInt(Rest(condition, 2)))
    ELSE IF startswith(condition, <<">">>) THEN Compare(count, ">", ParseInt(Rest(condition, 1)))
    ELSE IF startswith(condition, <<"<", "=">>) THEN Compare(count, "<=", ParseInt(Rest(condition, 2)))
    ELSE IF startswith(condition, <<"<">>) THEN Compare(count, "<", ParseInt(Rest(condition, 1)))
    ELSE IF startswith(condition, <<"=", "=">>) THEN Compare(count, "==", ParseInt(Rest(condition, 2)))
    ELSE Compare(count, "==", ParseInt(condition))

(***************************************************************************)
(* PolicyEngine._get_target_count, _match_rule, check, _create_decision.   *)
(* Tool arguments are records [host, hosts, command, env]; an argument     *)
(* that was not passed is None.                                            *)
(***************************************************************************)
ToolArgs(host, hosts, command, env) ==
    [host |-> host, hosts |-> hosts, command |-> command, env |-> env]

get_target_count(tool_name, args) ==
    IF tool_name = "ssh_exec" THEN 1
    ELSE IF tool_name = "ssh_exec_batch" THEN Len(args.hosts)
    ELSE 0

\* "True", "False" or Raise (from _check_target_count).
match_rule(rule, env, action_type, target_count) ==
    LET condition == rule.condition IN
    IF condition.env # None /\ condition.env # env THEN "False"
    ELSE IF condition.action_type # None
            /\ (action_type = None \/ condition.action_type # action_type) THEN "False"
    ELSE IF condition.target_count # NoComparator
         THEN LET c == check_target_count(target_count, condition.target_count) IN
              IF c = Raise THEN Raise ELSE IF c = "False" THEN "False" ELSE "True"
    ELSE "True"

\* A rule loop in which a later matching rule overrides an earlier one.
MatchLast(rules, i, env, action_type, target_count) ==
    LET hits == {j \in i..Len(rules) :
                    match_rule(rules[j], env, action_type, target_count) = "True"}
    IN  IF hits = {} THEN 0 ELSE CHOOSE j \in hits : \A k \in hits : k <= j

\* The loop of check over the rules from position i on: the index of the
\* rule that fires, 0 when none does, -1 when matching a rule raised.
RECURSIVE MatchFrom(_, _, _, _, _)
MatchFrom(rules, i, env, action_type, target_count) ==
    IF i > Len(rules) THEN 0
    ELSE LET m == match_rule(rules[i], env, action_type, target_count) IN
         IF m = Raise THEN -1
         ELSE IF m = "True" THEN i
         ELSE MatchFrom(rules, i + 1, env, action_type, target_count)

RiskLevel(action_type, env) ==
    IF action_type = "destructive" THEN (IF env = "prod" THEN "critical" ELSE "high")
    ELSE IF action_type = "write" THEN (IF env = "prod" THEN "high" ELSE "medium")
    ELSE "low"

PolicyDecision(effect, message, triggered_rule, confirm_token, risk_level) ==
    [effect |-> effect, message |-> message, triggered_rule |-> triggered_rule,
     confirm_token |-> confirm_token, risk_level |-> risk_level]

RaisedDecision == PolicyDecision(Raise, None, None, NoToken, None)

\* _generate_confirm_token: the table with the new token's record.
generate_confirm_token(table, token, rule, args, time) ==
    [t \in DOMAIN table \cup {token} |->
        IF t = token THEN [rule |-> rule.name, args |-> args, created_at |-> time]
        ELSE table[t]]

\* The environment and the action type check works with.
CheckEnv(args, env) ==
    IF env = None THEN (IF args.env = None THEN "dev" ELSE args.env) ELSE env

CheckActionType(tool_name, args, action_type) ==
    IF action_type = None /\ tool_name = "ssh_exec" THEN classify_command(args.command)
    ELSE action_type

\* What check returns once its loop has ended at rule i (0: no rule fired,
\* -1: matching raised): _create_decision for the rule, or the default allow.
create_decision(rules, i, table, token, time, args, env, action_type) ==
        IF i = -1 THEN [decision |-> RaisedDecision, table |-> table]
        ELSE IF i = 0
        THEN [decision |-> PolicyDecision("allow", "allowed", None, NoToken, "low"),
              table |-> table]
        ELSE IF rules[i].effect \notin PolicyEffect
        THEN [decision |-> RaisedDecision, table |-> table]
        ELSE IF rules[i].effect = "require_confirm"
        THEN [decision |-> PolicyDecision("require_confirm", rules[i].message, rules[i].name,
                                          token, RiskLevel(action_type, env)),
              table |-> generate_confirm_token(table, token, rules[i], args, time)]
        ELSE [decision |-> PolicyDecision(rules[i].effect, rules[i].message, rules[i].name,
                                          NoToken, RiskLevel(action_type, env)),
              table |-> table]

\* check: the decision it returns (effect Raise when it raises) and the
\* token table it leaves; token is the value the next mint would get.  The
\* rule loop is evaluated once and its outcome i handed to create_decision.
check(rules, table, token, time, tool_name, args, env0, action_type0) ==
    LET env == CheckEnv(args, env0)
        action_type == CheckActionType(tool_name, args, action_type0)
        target_count == get_target_count(tool_name, args)
    IN  CHOOSE c \in { create_decision(rules, i, table, token, time, args, env, action_type) :
                         i \in {MatchFrom(rules, 1, env, action_type, target_count)} } : TRUE

(***************************************************************************)
(* PolicyEngine.validate_confirm_token and consume_confirm_token.          *)
(***************************************************************************)
Without(table, token) == [t \in DOMAIN table \ {token} |-> table[t]]

\* What validate_confirm_token returns.
validate_confirm_token(table, token, time) ==
    /\ token \in DOMAIN table
    /\ ~(time - table[token].created_at > TOKEN_TTL_SECONDS)

\* A validation that renews the token it finds valid (a sliding lifetime).
ValidateTableRenewing(table, token, time) ==
    IF token \notin DOMAIN table THEN table
    ELSE IF time - table[token].created_at > TOKEN_TTL_SECONDS THEN Without(table, token)
    ELSE [table EXCEPT ![token].created_at = time]

\* The table validate_confirm_token leaves: an expired token is deleted.
ValidateTable(table, token, time) ==
    IF token \in DOMAIN table /\ time - table[token].created_at > TOKEN_TTL_SECONDS
    THEN Without(table, token)
    ELSE table

\* What consume_confirm_token returns: the stored record, or None.
NoRecord == [rule |-> None, args |-> None, created_at |-> -1]

consume_confirm_token(table, token) ==
    IF token \in DOMAIN table THEN table[token] ELSE NoRecord

\* A consume that reads the record and leaves it in the table (dict.get).
ConsumeTableKeeping(table, token) == table

\* The table consume_confirm_token leaves: dict.pop.
ConsumeTable(table, token) == Without(table, token)

(***************************************************************************)
(* SSHExecTool.execute, from its entry to its first await: host lookup,    *)
(* classification, the policy check and the handling of the decision run   *)
(* without suspension, so no other coroutine of the event loop runs in     *)
(* between.  The result is the ToolResult it returns at once, or status    *)
(* "run" when it goes on to await _execute_ssh.                            *)
(***************************************************************************)
ToolResult(status, error, confirm_token, effect, table) ==
    [status |-> status, error |-> error, confirm_token |-> confirm_token,
     effect |-> effect, table |-> table]

\* An execute that goes on to run the command without consuming the token.
RedeemTableKeeping(table, confirm_token) == table

\* ssh.py line 147: the table after a presented token passed validation.
RedeemTable(table, confirm_token) == ConsumeTable(table, confirm_token)

\* A deny branch that falls through to the execution.
deny_result_ignored(decision, table) ==
    ToolResult("run", <<>>, NoToken, decision.effect, table)

\* ssh.py lines 121-126: the error result of a denied call.
deny_result(decision, table) ==
    ToolResult("error", <<"policy_denied", decision.message>>, NoToken,
               decision.effect, table)

\* ssh.py lines 120-147: what execute does with the outcome c of the check.
handle_decision(c, confirm_token, time) ==
    LET d == c.decision
    IN  IF d.effect = Raise THEN ToolResult(Raise, <<>>, NoToken, Raise, c.table)
        ELSE IF d.effect = "deny" THEN deny_result(d, c.table)
        ELSE IF d.effect = "require_confirm"
        THEN IF confirm_token = NoToken
             THEN ToolResult("pending_confirm", <<>>, d.confirm_token, d.effect, c.table)
             ELSE IF ~validate_confirm_token(c.table, confirm_token, time)
             THEN ToolResult("pending_confirm", <<>>, d.confirm_token, d.effect,
                             ValidateTable(c.table, confirm_token, time))
             ELSE ToolResult("run", <<>>, NoToken, d.effect,
                             RedeemTable(ValidateTable(c.table, confirm_token, time),
                                         confirm_token))
        ELSE ToolResult("run", <<>>, NoToken, d.effect, c.table)

ssh_exec(rules, table, token, time, host, command, env0, confirm_token) ==
    IF host \notin DOMAIN ConfigHosts
    THEN ToolResult("error", <<"host_not_found">>, NoToken, None, table)
    ELSE
    LET env == IF env0 = None THEN ConfigHosts[host] ELSE env0
        action_type == classify_command(command)
    IN  CHOOSE r \in { handle_decision(c, confirm_token, time) :
                         c \in {check(rules, table, token, time, "ssh_exec",
                                       ToolArgs(host, <<>>, command, env), env,
                                       action_type)} } : TRUE

(***************************************************************************)
(* The providers' _normalize_response (agent/claude.py, gemini.py,         *)
(* zhipu.py).  A reply of the vendor's API is the function calls it asks   *)
(* for and the vendor's finish reason.  An id string is given by the parts *)
(* it is formatted from.                                                   *)
(***************************************************************************)
Providers == {"claude", "gemini", "zhipu"}

FunctionCall(name, host, command) ==
    [name |-> name, arguments |-> [host |-> host, command |-> command]]

DenyCall == FunctionCall("ssh_exec", "prod-1", "rm -rf /")

ConfirmCall == FunctionCall("ssh_exec", "prod-1", "systemctl stop nginx")

ReadCall == FunctionCall("ssh_exec", "dev-1", "uptime")

UnknownCall == FunctionCall("no_such_tool", None, None)

\* The function-call lists a reply may carry.
ModelTurns ==
    { <<>>, <<DenyCall>>, <<ReadCall, DenyCall>>, <<ConfirmCall>>,
      <<UnknownCall, ReadCall>>, <<ReadCall, ReadCall>> }

\* The finish reasons the vendor's API gives with a reply.
FinishReasons(p, calls) ==
    IF p = "claude"
    THEN (IF calls = <<>> THEN {"end_turn", "max_tokens"} ELSE {"tool_use", "max_tokens"})
    ELSE IF p = "gemini" THEN {"STOP", "MAX_TOKENS", "OTHER"}
    ELSE (IF calls = <<>> THEN {"stop", "length"} ELSE {"tool_calls", "length"})

ToolCallId(prefix, name, turn, n) ==
    [prefix |-> prefix, name |-> name, turn |-> turn, n |-> n]

\* The id the provider gives the i-th call of the reply of turn `turn`:
\* Gemini formats call_<name>_<index>, the other two pass the API's id on.
tool_call_id(p, turn, calls, i) ==
    IF p = "gemini" THEN ToolCallId("call", calls[i].name, 0, i - 1)
    ELSE IF p = "claude" THEN ToolCallId("toolu", "", turn, i)
    ELSE ToolCallId("call", "", turn, i)

claude_stop_reason(finish, calls) == finish

gemini_stop_reason(finish, calls) ==
    IF finish = "STOP" THEN "stop"
    ELSE IF finish = "MAX_TOKENS" THEN "max_tokens"
    ELSE IF finish = "SAFETY" THEN "safety"
    ELSE IF calls # <<>> THEN "tool_use"
    ELSE "stop"

zhipu_stop_reason(finish, calls) ==
    IF finish = "tool_calls" THEN "tool_use"
    ELSE IF finish = "length" THEN "max_tokens"
    ELSE finish

TextBlock(text) == [type |-> "text", text |-> text]

Message(role, content) == [role |-> role, content |-> content]

Response(content, tool_calls, stop_reason) ==
    [content |-> content, tool_calls |-> tool_calls, stop_reason |-> stop_reason]

NoResponse == Response(<<>>, <<>>, None)

normalize_response(p, turn, calls, finish) ==
    Response(<<TextBlock("text")>>,
             [i \in 1..Len(calls) |->
                 [id |-> tool_call_id(p, turn, calls, i), name |-> calls[i].name,
                  arguments |-> calls[i].arguments]],
             IF p = "claude" THEN claude_stop_reason(finish, calls)
             ELSE IF p = "gemini" THEN gemini_stop_reason(finish, calls)
             ELSE zhipu_stop_reason(finish, calls))

(***************************************************************************)
(* _agent_loop (mcp/openai_compat.py): one tool call of a turn, from       *)
(* mcp_registry.call_tool to the tool_result block.                        *)
(***************************************************************************)
RegisteredTools == {"ssh_exec"}

\* How the remote execution of a command ends: exit code 0, or anything else.
SSHOutcomes == {"success", "failed"}

\* A tool_result that copies the call's name instead of its id.
tool_use_id_by_name(tc) == ToolCallId("call", tc.name, 0, -1)

\* tc.get("id", f"call_{tool_name}"): every provider sets the id.
tool_use_id(tc) == tc.id

\* What one tool call comes to: r is what ssh_exec has before its
\* await, outcome how the remote execution ended.  A text is the sequence of
\* its parts: a label, then the fields of the ToolResult formatted into it.
tool_outcome(r, outcome) ==
    [result_text |->
         IF r.status = Raise THEN <<"exception", "check">>
         ELSE IF r.status = "error" THEN r.error
         ELSE IF r.status = "pending_confirm" THEN <<"needs_confirm", "preview">>
         ELSE IF outcome = "success" THEN <<"output">>
         ELSE <<"ssh_failed">>,
     table |-> r.table, effect |-> r.effect, sent |-> r.status = "run"]

\* A registry that hands every call to ssh_exec, whatever tool it names.
call_tool_any_name(rules, table, token, time, tc, outcome) ==
    CHOOSE t \in { tool_outcome(r, outcome) :
                     r \in {ssh_exec(rules, table, token, time, tc.arguments.host,
                                     tc.arguments.command, None, NoToken)} } : TRUE

\* result_text, the table the call leaves, and whether the command was sent.
call_tool(rules, table, token, time, tc, outcome) ==
    IF tc.name \notin RegisteredTools
    THEN [result_text |-> <<"exception", "tool_not_found">>, table |-> table,
          effect |-> None, sent |-> FALSE]
    ELSE CHOOSE t \in { tool_outcome(r, outcome) :
                          r \in {ssh_exec(rules, table, token, time, tc.arguments.host,
                                          tc.arguments.command, None, NoToken)} } : TRUE

ToolResultBlock(tool_use_id0, content) ==
    [type |-> "tool_result", tool_use_id |-> tool_use_id0, content |-> content]

\* The notice _agent_loop appends to the content when it ran out of iterations.
CapNotice == TextBlock("max_iterations_reached")

(***************************************************************************)
(* The variables of the other specifications at rest.                      *)
(***************************************************************************)
NoCheck == [tool_name |-> None, env |-> None, action_type |-> None,
            target_count |-> 0,
            decision |-> PolicyDecision(None, None, None, NoToken, None)]

LoopStart(p, n) ==
    /\ provider = p
    /\ max_iterations = n
    /\ loop = [pc |-> "calling_model", iteration |-> 0, model_calls |-> 0,
               response |-> NoResponse, tool_results |-> <<>>]
    /\ conversation = <<Message("user", <<TextBlock("prompt")>>)>>
    /\ final_response = NoResponse
    /\ emitted = <<>>
    /\ tool_log = <<>>

NoBatch == [pc |-> "idle", hosts |-> <<>>, command |-> None, confirm_token |-> NoToken,
            effect |-> None, tasks |-> <<>>, order |-> <<>>, results |-> <<>>]

\* No chat command running.
NoChat == [pc |-> "idle", dry_run |-> FALSE, iteration |-> 0, messages |-> <<>>,
           response |-> [content |-> None, tool_calls |-> 0], session |-> None]

\* No execute_tool_calls in progress, and an empty tool_calls table.
ExecStart ==
    /\ exec = [pc |-> "idle", tool_calls |-> <<>>, i |-> 1, call_id |-> 0,
               results |-> <<>>, outcomes |-> <<>>]
    /\ audit_rows = <<>>

\* A fresh ToolRegistry: _tools = {}.
RegistryStart ==
    /\ tools = << >>
    /\ first_tool = << >>

(***************************************************************************)
(* SpecEngine: the engine under direct calls (check, validate, consume)   *)
(* and the clock.  The ssh_exec invocations of SpecSsh are defined here    *)
(* too, as they share the bookkeeping of the tokens.                       *)
(***************************************************************************)
Idle == [pc |-> "idle", token |-> NoToken, gated |-> FALSE, valid |-> FALSE]

\* The tokens a caller may present: none, a made-up one, or any minted one.
Presentable == {NoToken, BogusToken} \cup (1..(next_token - 1))

\* The calls of check the direct-call actions make.
ApiCalls ==
    { [tool_name |-> "ssh_exec", env |-> "prod", action_type |-> None,
       args |-> ToolArgs("prod-1", <<>>, "systemctl stop nginx", "prod")],
      [tool_name |-> "ssh_exec", env |-> "prod", action_type |-> "destructive",
       args |-> ToolArgs("prod-1", <<>>, "rm -rf /", None)],
      [tool_name |-> "ssh_exec", env |-> None, action_type |-> None,
       args |-> ToolArgs("dev-1", <<>>, "uptime", None)],
      [tool_name |-> "ssh_exec_batch", env |-> None, action_type |-> None,
       args |-> ToolArgs(None, <<"h1", "h2", "h3", "h4", "h5", "h6">>, "uptime", None)] }

\* The ssh_exec calls the sessions make (host, command, env argument).
SSHCalls ==
    { [host |-> "prod-1", command |-> "systemctl stop nginx", env |-> None],
      [host |-> "prod-1", command |-> "rm -rf /", env |-> None],
      [host |-> "dev-1", command |-> "systemctl stop nginx", env |-> "prod"],
      [host |-> "dev-1", command |-> "uptime", env |-> None],
      [host |-> "ghost", command |-> "uptime", env |-> None] }

\* What the last call returned: the call, the token it was about, and its
\* result (a decision's effect, a ToolResult's status, or True / False).
Ret(op, token, result) == [op |-> op, token |-> token, result |-> result]

NoRet == Ret(None, NoToken, None)

\* No token has let a call through yet.
ReplayStart ==
    /\ redeemed_for = << >>
    /\ replayed = None

EngineStart ==
    /\ confirm_tokens = << >>
    /\ next_token = 1
    /\ now = 0
    /\ ticks = 0
    /\ ret = NoRet
    /\ minted_at = << >>
    /\ consumed = [t \in TokenIds |-> 0]
    /\ sess = [s \in Sessions |-> Idle]
    /\ authorized = [t \in TokenIds |-> 0]

EngineInit ==
    /\ policies = MockPolicies
    /\ EngineStart
    /\ checked = NoCheck
    /\ LoopStart("claude", 1)
    /\ batch = NoBatch
    /\ chat = NoChat
    /\ ReplayStart
    /\ ExecStart
    /\ RegistryStart

\* The history of a direct call that left the table as `table`: what it minted.
Minted(table) ==
    IF next_token \in DOMAIN table
    THEN /\ next_token' = next_token + 1
         /\ minted_at' = [t \in DOMAIN minted_at \cup {next_token} |->
                             IF t = next_token THEN now ELSE minted_at[t]]
    ELSE UNCHANGED <<next_token, minted_at>>

\* time.time() moves on between two calls.
Tick ==
    /\ ticks < MaxTicks
    /\ \E d \in TickSteps : now' = now + d
    /\ ticks' = ticks + 1
    /\ ret' = NoRet
    /\ UNCHANGED <<policies, confirm_tokens, next_token, minted_at, consumed,
                   sess, authorized>>
    /\ UNCHANGED <<ruleVars, loopVars, batchVars, registryVars, execVars, replayVars, chatVars>>

ApiCheck ==
    \E call \in ApiCalls :
        \E c \in {check(policies, confirm_tokens, next_token, now, call.tool_name,
                         call.args, call.env, call.action_type)} :
        /\ next_token \in DOMAIN c.table => next_token <= MaxTokens
        /\ confirm_tokens' = c.table
        /\ Minted(c.table)
        /\ ret' = Ret("check", c.decision.confirm_token, c.decision.effect)
        /\ UNCHANGED <<policies, now, ticks, consumed, sess, authorized>>
        /\ UNCHANGED <<ruleVars, loopVars, batchVars, registryVars, execVars, replayVars, chatVars>>

ApiValidate ==
    \E token \in Presentable :
        /\ ret' = Ret("validate", token,
                      Bool(validate_confirm_token(confirm_tokens, token, now)))
        /\ confirm_tokens' = ValidateTable(confirm_tokens, token, now)
        /\ UNCHANGED <<policies, next_token, now, ticks, minted_at, consumed, sess,
                       authorized>>
        /\ UNCHANGED <<ruleVars, loopVars, batchVars, registryVars, execVars, replayVars, chatVars>>

ApiConsume ==
    \E token \in Presentable :
        LET record == consume_confirm_token(confirm_tokens, token) IN
        /\ ret' = Ret("consume", token, Bool(record.rule # None))
        /\ confirm_tokens' = ConsumeTable(confirm_tokens, token)
        /\ consumed' = IF record.rule # None
                       THEN [consumed EXCEPT ![token] = @ + 1] ELSE consumed
        /\ UNCHANGED <<policies, next_token, now, ticks, minted_at, sess, authorized>>
        /\ UNCHANGED <<ruleVars, loopVars, batchVars, registryVars, execVars, replayVars, chatVars>>

\* Session s calls ssh_exec; the command is handed to the SSH worker when the
\* decision lets it through.
SSHExecCall(s) ==
    /\ sess[s].pc = "idle"
    /\ \E call \in SSHCalls, token \in Presentable :
        \E r \in {ssh_exec(policies, confirm_tokens, next_token, now, call.host,
                          call.command, call.env, token)} :
        LET redeemed == r.status = "run" /\ r.effect = "require_confirm"
        IN  /\ next_token \in DOMAIN r.table => next_token <= MaxTokens
            /\ confirm_tokens' = r.table
            /\ next_token' = IF next_token \in DOMAIN r.table
                             THEN next_token + 1 ELSE next_token
            /\ sess' = [sess EXCEPT ![s] =
                    IF redeemed
                    THEN [pc |-> "awaiting_ssh", token |-> token, gated |-> TRUE,
                          valid |-> /\ token \in DOMAIN confirm_tokens
                                    /\ now - confirm_tokens[token].created_at
                                          <= TOKEN_TTL_SECONDS]
                    ELSE IF r.status = "run"
                    THEN [Idle EXCEPT !.pc = "awaiting_ssh"]
                    ELSE Idle]
            /\ authorized' = IF redeemed /\ token \in TokenIds
                             THEN [authorized EXCEPT ![token] = @ + 1] ELSE authorized
            /\ redeemed_for' = IF redeemed /\ token \in TokenIds \ DOMAIN redeemed_for
                               THEN [t \in DOMAIN redeemed_for \cup {token} |->
                                        IF t = token THEN call ELSE redeemed_for[t]]
                               ELSE redeemed_for
            /\ replayed' = IF token \in DOMAIN redeemed_for /\ redeemed_for[token] = call
                           THEN r.status ELSE replayed
            /\ UNCHANGED <<policies, now, ticks, ret, minted_at, consumed>>
            /\ UNCHANGED <<ruleVars, loopVars, batchVars, registryVars, execVars, chatVars>>

\* The SSH worker of session s returns: exit code 0, another one, or an exception.
SSHExecReturn(s) ==
    /\ sess[s].pc = "awaiting_ssh"
    /\ sess' = [sess EXCEPT ![s] = Idle]
    /\ UNCHANGED <<policies, confirm_tokens, next_token, now, ticks, ret, minted_at,
                   consumed, authorized>>
    /\ UNCHANGED <<ruleVars, loopVars, batchVars, registryVars, execVars, replayVars, chatVars>>

EngineNext ==
    \/ Tick
    \/ ApiCheck
    \/ ApiValidate
    \/ ApiConsume

SpecEngine == EngineInit /\ [][EngineNext]_vars

\* Time passes.  The calls of check, validate and consume are the callers';
\* the engine has no step of its own: nothing in it sweeps the table.
SpecEngineFair == SpecEngine /\ WF_vars(Tick)

(***************************************************************************)
(* SpecSsh: sessions of one event loop calling ssh_exec on the shared      *)
(* engine, while the clock moves.                                          *)
(***************************************************************************)
SshNext ==
    \/ Tick
    \/ \E s \in Sessions : SSHExecCall(s)
    \/ \E s \in Sessions : SSHExecReturn(s)

SpecSsh == EngineInit /\ [][SshNext]_vars

(***************************************************************************)
(* SpecRules: PolicyEngine.check on rule lists the configuration schema    *)
(* accepts.                                                                *)
(***************************************************************************)
\* Rules a policies section can hold: the schema types every field as str
\* (condition fields: str or None) and looks no further.
RuleUniverse ==
    { PolicyRule("prod_write", PolicyCondition("prod", "write", NoComparator),
                 "require_confirm", "msg_prod_write"),
      PolicyRule("prod_any", PolicyCondition("prod", None, NoComparator),
                 "deny", "msg_prod_any"),
      PolicyRule("many_targets", PolicyCondition(None, None, <<">", "1">>),
                 "require_confirm", "msg_many"),
      PolicyRule("two_targets", PolicyCondition(None, "write", <<"2">>),
                 "deny", "msg_two"),
      PolicyRule("catch_all", PolicyCondition(None, None, NoComparator),
                 "allow", "msg_all"),
      PolicyRule("bad_count", PolicyCondition("dev", None, <<">", "x">>),
                 "deny", "msg_bad_count"),
      PolicyRule("bad_effect", PolicyCondition(None, "write", NoComparator),
                 "block", "msg_bad_effect") }

\* PolicyRule / PolicyCondition validation of config/schema.py.
SchemaAccepts(rule) ==
    /\ rule.name \in STRING
    /\ rule.effect \in STRING
    /\ rule.message \in STRING
    /\ rule.condition.env \in STRING
    /\ rule.condition.action_type \in STRING

RuleLists ==
    UNION { [1..n -> {r \in RuleUniverse : SchemaAccepts(r)}] : n \in 0..MaxRules }

\* The calls of check.
RuleQueries ==
    { [tool_name |-> "ssh_exec", env |-> "prod", action_type |-> None,
       args |-> ToolArgs("prod-1", <<>>, "systemctl stop nginx", "prod")],
      [tool_name |-> "ssh_exec", env |-> "prod", action_type |-> None,
       args |-> ToolArgs("prod-1", <<>>, "uptime", "prod")],
      [tool_name |-> "ssh_exec", env |-> None, action_type |-> None,
       args |-> ToolArgs("dev-1", <<>>, "systemctl stop nginx", None)],
      [tool_name |-> "ssh_exec_batch", env |-> None, action_type |-> None,
       args |-> ToolArgs(None, <<"dev-1", "prod-1">>, "uptime", None)],
      [tool_name |-> "ssh_exec_batch", env |-> "prod", action_type |-> "write",
       args |-> ToolArgs(None, <<"prod-1", "prod-1">>, "systemctl stop nginx", None)],
      [tool_name |-> "git_status", env |-> None, action_type |-> None,
       args |-> ToolArgs("prod-1", <<>>, None, "prod")] }

RulesInit ==
    /\ policies \in RuleLists
    /\ EngineStart
    /\ checked = NoCheck
    /\ LoopStart("claude", 1)
    /\ batch = NoBatch
    /\ chat = NoChat
    /\ ReplayStart
    /\ ExecStart
    /\ RegistryStart

\* One call of check; checked keeps what the rules were matched against.
RuleCheck ==
    \E q \in RuleQueries :
        \E c \in {check(policies, confirm_tokens, next_token, now, q.tool_name,
                         q.args, q.env, q.action_type)} :
        /\ next_token \in DOMAIN c.table => next_token <= MaxTokens
        /\ confirm_tokens' = c.table
        /\ Minted(c.table)
        /\ checked' = [tool_name |-> q.tool_name,
                       env |-> CheckEnv(q.args, q.env),
                       action_type |-> CheckActionType(q.tool_name, q.args, q.action_type),
                       target_count |-> get_target_count(q.tool_name, q.args),
                       decision |-> c.decision]
        /\ UNCHANGED <<policies, now, ticks, ret, consumed, sess, authorized>>
        /\ UNCHANGED <<loopVars, batchVars, registryVars, execVars, replayVars, chatVars>>

RulesNext == RuleCheck

SpecRules == RulesInit /\ [][RulesNext]_vars

(***************************************************************************)
(* SpecLoop: _agent_loop for one chat_completions request.  provider.chat  *)
(* and every tool call are awaits; between two of them the loop runs       *)
(* without suspension.                                                     *)
(***************************************************************************)
LoopInit ==
    /\ policies = MockPolicies
    /\ EngineStart
    /\ checked = NoCheck
    /\ \E p \in Providers, n \in 1..MaxIterations : LoopStart(p, n)
    /\ batch = NoBatch
    /\ chat = NoChat
    /\ ReplayStart
    /\ ExecStart
    /\ RegistryStart

\* A loop that makes one turn more than range(max_iterations) has.
range_one_more(iteration, n) == iteration + 1 <= n

\* for iteration in range(max_iterations): whether another iteration follows.
range_has_next(iteration, n) == iteration + 1 < n

\* provider.chat returns a response: without tool calls it is returned, with
\* tool calls the assistant message is appended and the calls are executed.
ProviderChat ==
    /\ loop.pc = "calling_model"
    /\ \E calls \in ModelTurns : \E finish \in FinishReasons(provider, calls) :
        LET response == normalize_response(provider, loop.model_calls + 1, calls, finish)
        IN  IF Len(calls) = 0
            THEN /\ loop' = [loop EXCEPT !.pc = "returned", !.model_calls = @ + 1,
                                         !.response = response]
                 /\ final_response' = response
                 /\ UNCHANGED <<conversation, emitted>>
            ELSE /\ loop' = [loop EXCEPT !.pc = "executing_tools", !.model_calls = @ + 1,
                                         !.response = response, !.tool_results = <<>>]
                 /\ conversation' = Append(conversation,
                                           Message("assistant", response.content))
                 /\ emitted' = Append(emitted, [i \in 1..Len(calls) |->
                                                   response.tool_calls[i].id])
                 /\ UNCHANGED final_response
    /\ UNCHANGED <<provider, max_iterations, tool_log>>
    /\ UNCHANGED <<engineVars, ruleVars, batchVars, registryVars, execVars, replayVars, chatVars>>

\* provider.chat raises: the exception leaves _agent_loop (HTTP 500).
ProviderRaises ==
    /\ loop.pc = "calling_model"
    /\ loop' = [loop EXCEPT !.pc = "failed", !.model_calls = @ + 1]
    /\ UNCHANGED <<provider, max_iterations, conversation, final_response, emitted,
                   tool_log>>
    /\ UNCHANGED <<engineVars, ruleVars, batchVars, registryVars, execVars, replayVars, chatVars>>

\* A loop that takes the calls of a turn from the last one to the first.
next_tc_reversed(tool_calls, tool_results) ==
    tool_calls[Len(tool_calls) - Len(tool_results)]

\* for tc in tool_calls: the call the loop body runs on next, given the
\* results appended so far.
next_tc(tool_calls, tool_results) ==
    tool_calls[Len(tool_results) + 1]

\* The next tool call of the turn: call_tool, result_text, tool_results.append.
CallTool ==
    /\ loop.pc = "executing_tools"
    /\ Len(loop.tool_results) < Len(loop.response.tool_calls)
    /\ \E tc \in {next_tc(loop.response.tool_calls, loop.tool_results)},
          outcome \in SSHOutcomes :
       \E r \in {call_tool(policies, confirm_tokens, next_token, now, tc, outcome)} :
          /\ next_token \in DOMAIN r.table => next_token <= MaxTokens
          /\ confirm_tokens' = r.table
          /\ next_token' = IF next_token \in DOMAIN r.table
                           THEN next_token + 1 ELSE next_token
          /\ loop' = [loop EXCEPT !.tool_results =
                         Append(@, ToolResultBlock(tool_use_id(tc), r.result_text))]
          /\ tool_log' = Append(tool_log,
                                [turn |-> loop.model_calls, id |-> tc.id,
                                 name |-> tc.name,
                                 effect |-> r.effect, sent |-> r.sent,
                                 result_text |-> r.result_text])
    /\ UNCHANGED <<policies, now, ticks, ret, minted_at, consumed, sess, authorized>>
    /\ UNCHANGED <<provider, max_iterations, conversation, final_response, emitted>>
    /\ UNCHANGED <<ruleVars, batchVars, registryVars, execVars, replayVars, chatVars>>

\* All calls of the turn are done: the tool results join the conversation and
\* the loop goes to its next iteration, or leaves by the cap.
EndTurn ==
    /\ loop.pc = "executing_tools"
    /\ Len(loop.tool_results) = Len(loop.response.tool_calls)
    /\ conversation' = Append(conversation, Message("user", loop.tool_results))
    /\ IF range_has_next(loop.iteration, max_iterations)
       THEN /\ loop' = [loop EXCEPT !.pc = "calling_model", !.iteration = @ + 1]
            /\ final_response' = loop.response
       ELSE /\ loop' = [loop EXCEPT !.pc = "capped", !.iteration = @ + 1]
            /\ final_response' = [loop.response EXCEPT !.content = Append(@, CapNotice)]
    /\ UNCHANGED <<provider, max_iterations, emitted, tool_log>>
    /\ UNCHANGED <<engineVars, ruleVars, batchVars, registryVars, execVars, replayVars, chatVars>>

LoopNext ==
    \/ ProviderChat
    \/ ProviderRaises
    \/ CallTool
    \/ EndTurn

SpecLoop == LoopInit /\ [][LoopNext]_vars

\* The event loop resumes _agent_loop whenever the call it awaits has ended.
SpecLoopFair == SpecLoop /\ WF_vars(LoopNext)

(***************************************************************************)
(* SpecBatch: SSHExecBatchTool.execute with parallel = True.  The per-host *)
(* executions are coroutines handed to asyncio.gather: the event loop      *)
(* starts them in list order, each runs up to its await of the SSH worker, *)
(* and the workers end in any order.                                       *)
(***************************************************************************)
BatchHosts == {"dev-1", "prod-1", "ghost"}

BatchHostLists == UNION { [1..n -> BatchHosts] : n \in 1..MaxHosts }

Task(pc, host, status) == [pc |-> pc, host |-> host, status |-> status]

\* Results handed back in the order the executions ended.
gather_as_completed(tasks, order) ==
    [k \in 1..Len(order) |-> [host |-> tasks[order[k]].host,
                              status |-> tasks[order[k]].status]]

\* asyncio.gather(*tasks): the results, in the order of the awaitables.
gather(tasks, order) ==
    [i \in 1..Len(tasks) |-> [host |-> tasks[i].host, status |-> tasks[i].status]]

\* A rule list that forbids operations on more than one target.
BatchDenyPolicies ==
    << PolicyRule("batch_forbidden",
                  PolicyCondition(None, None, <<">", "1">>), "deny", "msg_batch_deny") >>

\* The write protection of the unit tests' list, with a batch limit the
\* model's host lists can exceed.
BatchConfirmPolicies ==
    << PolicyRule("prod_write_protection",
                  PolicyCondition("prod", "write", NoComparator), "require_confirm", "msg_confirm"),
       PolicyRule("batch_operation_limit",
                  PolicyCondition(None, None, <<">", "1">>), "require_confirm", "msg_batch") >>

\* The command argument of the batch calls.
BatchCommands == {"uptime", "systemctl stop nginx"}

BatchInit ==
    /\ policies \in {MockPolicies, BatchDenyPolicies, BatchConfirmPolicies}
    /\ EngineStart
    /\ checked = NoCheck
    /\ LoopStart("claude", 1)
    /\ batch = NoBatch
    /\ chat = NoChat
    /\ ReplayStart
    /\ ExecStart
    /\ RegistryStart

\* execute up to its await of _execute_parallel: the batch policy check, the
\* handling of require_confirm, and one ssh_exec coroutine per host.  The
\* first call chooses hosts and command; a call after a pending_confirm
\* answer repeats them, with whatever token the caller presents.
BatchExecute ==
    /\ batch.pc = "idle"
    /\ \E hosts \in (IF batch.hosts = <<>> THEN BatchHostLists ELSE {batch.hosts}),
          command \in (IF batch.hosts = <<>> THEN BatchCommands ELSE {batch.command}),
          token \in Presentable :
        \E c \in {check(policies, confirm_tokens, next_token, now, "ssh_exec_batch",
                         ToolArgs(None, hosts, command, None), None, None)} :
        /\ next_token \in DOMAIN c.table => next_token <= MaxTokens
        /\ next_token' = IF next_token \in DOMAIN c.table
                         THEN next_token + 1 ELSE next_token
        /\ IF /\ c.decision.effect = "require_confirm"
              /\ (token = NoToken \/ ~validate_confirm_token(c.table, token, now))
           THEN /\ confirm_tokens' = ValidateTable(c.table, token, now)
                /\ batch' = [NoBatch EXCEPT !.pc = "pending_confirm", !.hosts = hosts,
                                            !.command = command,
                                            !.effect = c.decision.effect]
           ELSE /\ confirm_tokens' =
                      IF c.decision.effect = "require_confirm"
                      THEN RedeemTable(ValidateTable(c.table, token, now), token)
                      ELSE c.table
                /\ batch' = [pc |-> "gathering", hosts |-> hosts,
                             command |-> command,
                             confirm_token |-> token,
                             effect |-> c.decision.effect,
                             tasks |-> [i \in 1..Len(hosts) |->
                                           Task("created", hosts[i], None)],
                             order |-> <<>>, results |-> <<>>]
    /\ UNCHANGED <<policies, now, ticks, ret, minted_at, consumed, sess, authorized>>
    /\ UNCHANGED <<ruleVars, loopVars, registryVars, execVars, replayVars, chatVars>>

\* The coroutine of host i runs ssh_exec up to its first await.
TaskStart(i) ==
    /\ batch.pc = "gathering"
    /\ i \in 1..Len(batch.tasks)
    /\ batch.tasks[i].pc = "created"
    /\ \A j \in 1..(i - 1) : batch.tasks[j].pc # "created"
    /\ \E r \in {ssh_exec(policies, confirm_tokens, next_token, now, batch.hosts[i],
                          batch.command, None, batch.confirm_token)} :
        /\ next_token \in DOMAIN r.table => next_token <= MaxTokens
        /\ next_token' = IF next_token \in DOMAIN r.table
                         THEN next_token + 1 ELSE next_token
        /\ confirm_tokens' = r.table
        /\ batch' = IF r.status = "run"
                    THEN [batch EXCEPT !.tasks[i].pc = "awaiting"]
                    ELSE [batch EXCEPT !.tasks[i].pc = "finished",
                                       !.tasks[i].status = r.status,
                                       !.order = Append(@, i)]
    /\ UNCHANGED <<policies, now, ticks, ret, minted_at, consumed, sess, authorized>>
    /\ UNCHANGED <<ruleVars, loopVars, registryVars, execVars, replayVars, chatVars>>

\* The SSH worker of host i ends, with exit code 0 or otherwise.
TaskFinish(i) ==
    /\ batch.pc = "gathering"
    /\ i \in 1..Len(batch.tasks)
    /\ batch.tasks[i].pc = "awaiting"
    /\ \E outcome \in SSHOutcomes :
        batch' = [batch EXCEPT !.tasks[i].pc = "finished",
                               !.tasks[i].status = IF outcome = "success"
                                                   THEN "success" ELSE "error",
                               !.order = Append(@, i)]
    /\ UNCHANGED <<engineVars, ruleVars, loopVars, registryVars, execVars, replayVars, chatVars>>

\* gather returns once every coroutine has ended; execute zips the results
\* with hosts into the aggregated result.
BatchAggregate ==
    /\ batch.pc = "gathering"
    /\ \A i \in 1..Len(batch.tasks) : batch.tasks[i].pc = "finished"
    /\ LET results == gather(batch.tasks, batch.order) IN
       batch' = [batch EXCEPT !.pc = "done",
                              !.results = [i \in 1..Len(batch.hosts) |->
                                              [host |-> batch.hosts[i],
                                               status |-> results[i].status,
                                               result_of |-> results[i].host]]]
    /\ UNCHANGED <<engineVars, ruleVars, loopVars, registryVars, execVars, replayVars, chatVars>>

\* execute has returned pending_confirm: the caller reads the preview and
\* may call again.
BatchReturn ==
    /\ batch.pc = "pending_confirm"
    /\ batch' = [NoBatch EXCEPT !.hosts = batch.hosts, !.command = batch.command]
    /\ UNCHANGED <<engineVars, ruleVars, loopVars, registryVars, execVars, replayVars, chatVars>>

BatchNext ==
    \/ BatchExecute
    \/ \E i \in 1..MaxHosts : TaskStart(i)
    \/ \E i \in 1..MaxHosts : TaskFinish(i)
    \/ BatchAggregate
    \/ BatchReturn

SpecBatch == BatchInit /\ [][BatchNext]_vars

(***************************************************************************)
(* SpecRegistry: a ToolRegistry (tools/base.py) under register calls.  A   *)
(* tool is its name and which of the MCPTool objects of that name it is.   *)
(***************************************************************************)
ToolNames == {"ssh_exec", "ssh_exec_batch", "mock_tool"}

\* register: self._tools[tool.name] = tool.
register(table, tool) ==
    [n \in DOMAIN table \cup {tool.name} |->
        IF n = tool.name THEN tool ELSE table[n]]

RegistryInit ==
    /\ policies = MockPolicies
    /\ EngineStart
    /\ checked = NoCheck
    /\ LoopStart("claude", 1)
    /\ batch = NoBatch
    /\ chat = NoChat
    /\ ReplayStart
    /\ ExecStart
    /\ RegistryStart

Register ==
    \E name \in ToolNames, object \in 1..MaxTools :
        \E tool \in {[name |-> name, object |-> object]} :
            /\ tools' = register(tools, tool)
            /\ first_tool' = IF name \in DOMAIN first_tool
                              THEN first_tool
                              ELSE register(first_tool, tool)
            /\ UNCHANGED <<engineVars, ruleVars, loopVars, batchVars, execVars, replayVars, chatVars>>

SpecRegistry == RegistryInit /\ [][Register]_vars

(***************************************************************************)
(* SpecExec: ToolExecutor.execute_tool_calls (agent/executor.py) on one    *)
(* list of tool calls.  The registry holds ssh_exec.  tool.execute is an   *)
(* await; the audit logger's methods have no try/except, so a write the    *)
(* database refuses raises out of them.                                    *)
(***************************************************************************)
\* The tool_calls argument: each call's name and its arguments, of which the
\* model keeps the reserved key _confirm_token; tool_use_id is its position.
ExecCallLists ==
    UNION { [1..n -> [name : {"ssh_exec", "no_such_tool"},
                      arguments : [confirm_token : {NoToken, 1}]]] :
            n \in 1..MaxCalls }

\* What awaiting tool.execute(**tool_args) gives: a ToolResult of one of the
\* ToolStatus values, or an exception.
ToolOutcomes == {"success", "error", "pending_confirm", Raise}

\* AuditLogger.update_tool_call(call_id, status = ...).
update_tool_call(rows, call_id, status) ==
    [k \in DOMAIN rows |->
        IF rows[k].call_id = call_id THEN [rows[k] EXCEPT !.status = status]
        ELSE rows[k]]

ExecInit ==
    /\ policies = MockPolicies
    /\ EngineStart
    /\ checked = NoCheck
    /\ LoopStart("claude", 1)
    /\ batch = NoBatch
    /\ chat = NoChat
    /\ ReplayStart
    /\ tools = register(<< >>, [name |-> "ssh_exec", object |-> 1])
    /\ first_tool = tools
    /\ \E calls \in ExecCallLists :
           exec = [pc |-> "dispatching", tool_calls |-> calls, i |-> 1,
                   call_id |-> 0, results |-> <<>>, outcomes |-> <<>>]
    /\ audit_rows = <<>>

\* One pass of the for loop from its head to the await: the lookup, then
\* add_tool_call, which commits the pending row or raises.
ExecDispatch ==
    /\ exec.pc = "dispatching"
    /\ exec.i <= Len(exec.tool_calls)
    /\ \E tool_call \in {exec.tool_calls[exec.i]}, committed \in BOOLEAN :
        IF tool_call.name \notin DOMAIN tools
        THEN /\ exec' = [exec EXCEPT
                            !.results = Append(@, [tool_use_id |-> exec.i,
                                                   status |-> "not_found"]),
                            !.outcomes = Append(@, None),
                            !.i = @ + 1]
             /\ UNCHANGED audit_rows
        ELSE IF committed
        THEN /\ audit_rows' = Append(audit_rows,
                                     [call_id |-> Len(audit_rows) + 1,
                                      tool_name |-> tool_call.name,
                                      tool_args |-> tool_call.arguments,
                                      status |-> "pending"])
             /\ exec' = [exec EXCEPT !.pc = "awaiting",
                                     !.call_id = Len(audit_rows) + 1]
        ELSE /\ exec' = [exec EXCEPT !.pc = "raised"]
             /\ UNCHANGED audit_rows
    /\ UNCHANGED <<engineVars, ruleVars, loopVars, batchVars, registryVars, replayVars, chatVars>>

\* tool.execute ends; the rest of the pass.  In the try block
\* update_tool_call records the result's status; an exception of the tool or
\* of that update enters the except block, whose own update_tool_call
\* records "error" or raises in turn.
ExecToolDone ==
    /\ exec.pc = "awaiting"
    /\ \E outcome \in ToolOutcomes, updated \in BOOLEAN, recorded \in BOOLEAN :
        IF outcome # Raise /\ updated
        THEN /\ audit_rows' = update_tool_call(audit_rows, exec.call_id, outcome)
             /\ exec' = [exec EXCEPT
                            !.pc = "dispatching",
                            !.results = Append(@, [tool_use_id |-> exec.i,
                                                   status |-> outcome]),
                            !.outcomes = Append(@, outcome),
                            !.i = @ + 1]
        ELSE IF recorded
        THEN /\ audit_rows' = update_tool_call(audit_rows, exec.call_id, "error")
             /\ exec' = [exec EXCEPT
                            !.pc = "dispatching",
                            !.results = Append(@, [tool_use_id |-> exec.i,
                                                   status |-> "failed"]),
                            !.outcomes = Append(@, outcome),
                            !.i = @ + 1]
        ELSE /\ exec' = [exec EXCEPT !.pc = "raised",
                                     !.outcomes = Append(@, outcome)]
             /\ UNCHANGED audit_rows
    /\ UNCHANGED <<engineVars, ruleVars, loopVars, batchVars, registryVars, replayVars, chatVars>>

\* return results.
ExecReturn ==
    /\ exec.pc = "dispatching"
    /\ exec.i > Len(exec.tool_calls)
    /\ exec' = [exec EXCEPT !.pc = "returned"]
    /\ UNCHANGED audit_rows
    /\ UNCHANGED <<engineVars, ruleVars, loopVars, batchVars, registryVars, replayVars, chatVars>>

ExecNext ==
    \/ ExecDispatch
    \/ ExecToolDone
    \/ ExecReturn

SpecExec == ExecInit /\ [][ExecNext]_vars

\* The event loop runs the executor's own steps whenever they are possible.
\* When the awaited tool.execute ends is up to the tool: execute_tool_calls
\* awaits it as it is, with no asyncio.wait_for or other timeout around it.
SpecExecFair == SpecExec /\ WF_vars(ExecDispatch) /\ WF_vars(ExecReturn)

(***************************************************************************)
(* SpecChat: the agent loop of the CLI's chat command (_chat_async,        *)
(* cli/main.py), from the creation of the audit session to the end of the  *)
(* command.  It is one coroutine; its awaits are llm_provider.chat and     *)
(* tool_executor.execute_tool_calls (SpecExec), which returns one result   *)
(* per tool call or raises.  The code's max_iterations is 10; the model    *)
(* runs the same loop with MaxChatIterations.  A message is its role and   *)
(* the type of its content; a response is its text and the number of its   *)
(* tool calls.                                                             *)
(***************************************************************************)
\* The responses llm_provider.chat may return: with or without text, and
\* with up to MaxCalls tool calls.
ChatResponses == [content : {"", "text"}, tool_calls : 0..MaxCalls]

\* Conversation.add_tool_result, once per result of the list.
add_tool_results(messages, n) ==
    messages \o [k \in 1..n |-> [role |-> "user", type |-> "tool_result"]]

\* create_session has written the row (status running) and the prompt is in
\* the conversation.
ChatInit ==
    /\ policies = MockPolicies
    /\ EngineStart
    /\ checked = NoCheck
    /\ LoopStart("claude", 1)
    /\ batch = NoBatch
    /\ ReplayStart
    /\ ExecStart
    /\ RegistryStart
    /\ \E dry_run \in BOOLEAN :
          chat = [NoChat EXCEPT !.pc = "calling_model", !.dry_run = dry_run,
                                !.messages = <<[role |-> "user", type |-> "text"]>>,
                                !.session = "running"]

\* One pass of the while loop up to execute_tool_calls: the model call and
\* the handling of its response.
ChatModel ==
    /\ chat.pc = "calling_model"
    /\ \/ \E response \in ChatResponses :
             chat' = [chat EXCEPT
                        !.iteration = @ + 1,
                        !.response = response,
                        !.pc = IF response.tool_calls = 0 \/ chat.dry_run
                               THEN "done" ELSE "executing_tools",
                        !.session = IF response.tool_calls = 0
                                    THEN "completed" ELSE @]
       \/ chat' = [chat EXCEPT !.iteration = @ + 1, !.pc = "failed"]
    /\ UNCHANGED <<engineVars, ruleVars, loopVars, batchVars, registryVars, execVars,
                   replayVars>>

\* execute_tool_calls ends: its results join the conversation and the while
\* condition is tested again, or its exception ends the command.
ChatTools ==
    /\ chat.pc = "executing_tools"
    /\ \/ chat' = [chat EXCEPT
                      !.messages = add_tool_results(@, chat.response.tool_calls),
                      !.pc = IF chat.iteration < MaxChatIterations
                             THEN "calling_model" ELSE "done"]
       \/ chat' = [chat EXCEPT !.pc = "failed"]
    /\ UNCHANGED <<engineVars, ruleVars, loopVars, batchVars, registryVars, execVars,
                   replayVars>>

ChatNext ==
    \/ ChatModel
    \/ ChatTools

SpecChat == ChatInit /\ [][ChatNext]_vars

(***************************************************************************)
(* Properties of the confirm-token table.                                  *)
(***************************************************************************)

\* C1: for every minted token T, consume_confirm_token(T) returns the stored
\* record at most once, and a validate_confirm_token(T) issued after that
\* successful consume returns False (in every later state T would be refused).
ConfirmTokenSingleUse ==
    /\ \A t \in TokenIds : consumed[t] <= 1
    /\ \A t \in TokenIds :
          consumed[t] >= 1 => ~validate_confirm_token(confirm_tokens, t, now)
    /\ (ret.op = "validate" /\ ret.token \in TokenIds /\ consumed[ret.token] >= 1)
          => ret.result = "False"

\* A validate of a consumed token has just returned.
ValidateAfterConsume ==
    /\ ret.op = "validate"
    /\ ret.token \in TokenIds
    /\ consumed[ret.token] = 1
    /\ ret.result = "False"
    /\ now - minted_at[ret.token] <= TOKEN_TTL_SECONDS

\* C3: a validate_confirm_token(T) issued strictly more than 300 s after T
\* was minted returns False whatever calls came in between, and no call
\* changes the creation time the table holds for a token.
ConfirmTokenTTL ==
    /\ (ret.op = "validate" /\ ret.token \in DOMAIN minted_at
          /\ now - minted_at[ret.token] > TOKEN_TTL_SECONDS) => ret.result = "False"
    /\ \A t \in DOMAIN confirm_tokens :
          /\ confirm_tokens[t].created_at = minted_at[t]
          /\ now - minted_at[t] > TOKEN_TTL_SECONDS
                => ~validate_confirm_token(confirm_tokens, t, now)

\* A validate of a token that was never consumed has just returned False,
\* one second after the token's lifetime ended.
ValidateAfterTTL ==
    /\ ret.op = "validate"
    /\ ret.token \in DOMAIN minted_at
    /\ consumed[ret.token] = 0
    /\ now - minted_at[ret.token] = TOKEN_TTL_SECONDS + 1
    /\ ret.result = "False"

\* C2: a gated ssh_exec command is handed to the SSH worker only by an
\* invocation that presented a token which was in the table and within its
\* lifetime at that moment and which has left the table before the command
\* runs; over all sessions a token lets at most one gated command through.
GatedExecutionNeedsToken ==
    /\ \A t \in TokenIds : authorized[t] <= 1
    /\ \A s \in Sessions :
          (sess[s].pc = "awaiting_ssh" /\ sess[s].gated)
            => /\ sess[s].token \in TokenIds
               /\ sess[s].valid
               /\ sess[s].token \notin DOMAIN confirm_tokens
               /\ authorized[sess[s].token] = 1

\* Two sessions run gated commands at the same time, each on its own token.
TwoGatedExecutions ==
    \E s1, s2 \in Sessions :
        /\ s1 # s2
        /\ sess[s1].pc = "awaiting_ssh" /\ sess[s1].gated
        /\ sess[s2].pc = "awaiting_ssh" /\ sess[s2].gated
        /\ sess[s1].token # sess[s2].token

(***************************************************************************)
(* Properties of rule evaluation.                                          *)
(***************************************************************************)
\* Every condition field the rule states holds of the call; a field the rule
\* leaves out holds of every call.
AllPresentFieldsMatch(rule, env, action_type, target_count) ==
    /\ rule.condition.env = None \/ rule.condition.env = env
    /\ rule.condition.action_type = None \/ rule.condition.action_type = action_type
    /\ \/ rule.condition.target_count = NoComparator
       \/ check_target_count(target_count, rule.condition.target_count) = "True"

\* The positions of the rules that match the last call of check.
Matching ==
    {i \in 1..Len(policies) :
        AllPresentFieldsMatch(policies[i], checked.env, checked.action_type,
                              checked.target_count)}

FirstMatching == CHOOSE i \in Matching : \A j \in Matching : i <= j

\* C8: a decision check returns is the decision of the first rule in list
\* order all of whose stated condition fields match the call (its effect,
\* message and name), whatever rules follow it; when no rule matches it is
\* the default allow.
FirstMatchWins ==
    (checked.tool_name # None /\ checked.decision.effect # Raise)
      => IF Matching = {}
         THEN /\ checked.decision.effect = "allow"
              /\ checked.decision.triggered_rule = None
         ELSE /\ checked.decision.effect = policies[FirstMatching].effect
              /\ checked.decision.triggered_rule = policies[FirstMatching].name
              /\ checked.decision.message = policies[FirstMatching].message

\* Two rules of different effects match the call, and the decision is that of
\* the one that comes first.
TwoRulesMatch ==
    /\ checked.tool_name # None
    /\ Matching = {1, 2}
    /\ policies[1].effect # policies[2].effect
    /\ checked.decision.effect = policies[1].effect
    /\ checked.decision.triggered_rule = policies[1].name

\* C9: check returns a PolicyDecision for every call and every rule list the
\* configuration schema accepted; it never raises.
CheckNeverRaises ==
    checked.tool_name # None => checked.decision.effect \in PolicyEffect

(***************************************************************************)
(* Properties of the agent loop.                                           *)
(***************************************************************************)
RECURSIVE ResultBlocks(_)
\* The tool_result blocks of a message list, in order.
ResultBlocks(msgs) ==
    IF msgs = <<>> THEN <<>>
    ELSE LET m == Head(msgs) IN
         (IF m.role = "user"
          THEN SelectSeq(m.content, LAMBDA b : b.type = "tool_result") ELSE <<>>)
         \o ResultBlocks(Tail(msgs))

\* The tool results produced so far: those in the conversation and those of
\* the turn under execution.
Delivered ==
    ResultBlocks(conversation)
       \o (IF loop.pc = "executing_tools" THEN loop.tool_results ELSE <<>>)

Terminal == {"returned", "capped", "failed"}

\* C4: when the policy decision for an ssh_exec call is deny, the command is
\* not handed to the SSH worker, the call's tool result is the error text
\* made of the deny prefix and the message of a deny rule, and the loop does
\* not end because of it: it ends only after a further model call, or because
\* the denied turn was the last iteration the cap allows.
DenyNeverRuns ==
    /\ Len(Delivered) = Len(tool_log)
    /\ \A k \in 1..Len(tool_log) :
          tool_log[k].effect = "deny"
            => /\ ~tool_log[k].sent
               /\ Delivered[k].content = tool_log[k].result_text
               /\ \E i \in 1..Len(policies) :
                     /\ policies[i].effect = "deny"
                     /\ Delivered[k].content = <<"policy_denied", policies[i].message>>
               /\ loop.pc \in Terminal
                     => \/ loop.model_calls > tool_log[k].turn
                        \/ loop.pc = "capped" /\ loop.iteration = max_iterations

\* A denied call in the first turn, and the model was called again after it.
ModelTurnAfterDeny ==
    /\ Len(tool_log) >= 1
    /\ tool_log[1].effect = "deny"
    /\ tool_log[1].turn = 1
    /\ ~tool_log[1].sent
    /\ loop.model_calls = 2
    /\ loop.pc = "returned"

\* C5: every assistant message of the conversation (one per turn that emitted
\* tool calls) is followed by one user message of tool results whose
\* tool_use_ids are the ids emitted in that turn, one per call, in the same
\* order; until that message is there the loop is executing the turn's calls,
\* so no model call and no end of the session comes in between.
ToolResultsPaired ==
    \A p \in 1..Len(conversation) :
        conversation[p].role = "assistant"
          => LET k == Cardinality({q \in 1..p : conversation[q].role = "assistant"}) IN
             /\ k <= Len(emitted)
             /\ IF p = Len(conversation)
                THEN /\ loop.pc = "executing_tools"
                     /\ Len(loop.tool_results) <= Len(emitted[k])
                     /\ \A i \in 1..Len(loop.tool_results) :
                           loop.tool_results[i].tool_use_id = emitted[k][i]
                ELSE /\ conversation[p + 1].role = "user"
                     /\ Len(conversation[p + 1].content) = Len(emitted[k])
                     /\ \A i \in 1..Len(emitted[k]) :
                           /\ conversation[p + 1].content[i].type = "tool_result"
                           /\ conversation[p + 1].content[i].tool_use_id = emitted[k][i]

\* A session has completed after a turn of two calls of the same tool.
CompletedAfterTwoCalls ==
    /\ loop.pc = "returned"
    /\ Len(emitted) = 1
    /\ Len(emitted[1]) = 2
    /\ loop.response.stop_reason # "tool_use"
    /\ conversation[3].content[1].tool_use_id # conversation[3].content[2].tool_use_id
    /\ tool_log[1].name = tool_log[2].name

CappedResponseToolUse ==
    loop.pc = "capped"
      => /\ final_response.content = Append(loop.response.content, CapNotice)
         /\ final_response.tool_calls = loop.response.tool_calls
         /\ final_response.stop_reason = "tool_use"

(***************************************************************************)
(* Properties of the batch fan-out.                                        *)
(***************************************************************************)
\* C10: the aggregated result of ssh_exec_batch has one entry per input host,
\* in the order of the hosts list, and the entry at position i holds the
\* outcome of the execution that was started for the host at position i, in
\* whatever order the executions ended.
BatchResultsInHostOrder ==
    batch.pc = "done"
      => /\ Len(batch.results) = Len(batch.hosts)
         /\ \A i \in 1..Len(batch.hosts) :
               /\ batch.results[i].host = batch.hosts[i]
               /\ batch.results[i].result_of = batch.hosts[i]
               /\ batch.results[i].status = batch.tasks[i].status

\* A batch is done whose executions ended in another order than the hosts
\* list has, with different outcomes.
BatchDoneOutOfOrder ==
    /\ batch.pc = "done"
    /\ Len(batch.hosts) >= 2
    /\ batch.order[1] = 2
    /\ batch.hosts[1] # batch.hosts[2]
    /\ batch.results[1].status # batch.results[2].status

(***************************************************************************)
(* Properties of the providers' normalisation.                             *)
(***************************************************************************)
\* C11: a normalized provider response that holds at least one tool call
\* has stop_reason tool_use, whatever finish reason the vendor gave.
ToolCallsMeanToolUse ==
    Len(loop.response.tool_calls) > 0 => loop.response.stop_reason = "tool_use"

(***************************************************************************)
(* Properties of the tool registry.                                        *)
(***************************************************************************)

\* C12: registering a second tool under a name already taken is rejected:
\* every name keeps the tool that was first registered under it.
FirstRegistrationStays ==
    \A name \in DOMAIN tools : tools[name] = first_tool[name]

(***************************************************************************)
(* Properties of the tool executor and the audit trail.                    *)
(***************************************************************************)

\* C13: a failing audit write never fails the operation: execute_tool_calls
\* does not raise, and every tool that ran and returned a result has that
\* result's status handed back to the loop.
AuditFailureSwallowed ==
    /\ exec.pc # "raised"
    /\ \A k \in DOMAIN exec.results :
           exec.outcomes[k] \notin {None, Raise}
               => exec.results[k].status = exec.outcomes[k]

\* C14: no audit row holds a confirm token in the clear: the _confirm_token
\* key of a row's tool_args never carries a token.
AuditRowsHoldNoToken ==
    \A k \in DOMAIN audit_rows :
        audit_rows[k].tool_args.confirm_token \notin TokenIds

\* C16: every tool call that was dispatched has an audit row, a call that
\* names an unregistered tool included: once a call has its result, the rows
\* name the calls handled so far, one row per call, in order.
EveryCallAudited ==
    exec.pc \in {"dispatching", "returned"} =>
        /\ Len(audit_rows) = exec.i - 1
        /\ \A k \in DOMAIN audit_rows :
               audit_rows[k].tool_name = exec.tool_calls[k].name

(***************************************************************************)
(* Properties of the loop's failure handling.                              *)
(***************************************************************************)

\* C15: a provider failure during a model call ends the loop with a
\* normalized response whose stop_reason is error, handed to the caller; the
\* loop does not raise.
ProviderFailureIsAResponse ==
    loop.pc = "failed" =>
        /\ final_response # NoResponse
        /\ final_response.stop_reason = "error"

(***************************************************************************)
(* Properties of the policy gate of the SSH tools.                         *)
(***************************************************************************)

\* C17: when the policy decision for an ssh_exec_batch call is deny, execute
\* returns an error result and the command is handed to the SSH worker for
\* none of the listed hosts.
BatchDenyRunsNothing ==
    batch.effect = "deny" =>
        /\ \A i \in DOMAIN batch.tasks : batch.tasks[i].pc # "awaiting"
        /\ batch.pc # "done"

\* C18: the TTL is enforced on consume: consume_confirm_token(T) called more
\* than TOKEN_TTL_SECONDS after T was minted does not return T's record.
ConsumeEnforcesTTL ==
    (/\ ret.op = "consume"
     /\ ret.token \in DOMAIN minted_at
     /\ now - minted_at[ret.token] > TOKEN_TTL_SECONDS)
        => ret.result = "False"

\* C19: once a gated ssh_exec call has been let through with token T, the
\* same call presenting T again gets an error result and is not run.
ReplayedTokenIsAnError ==
    replayed # None => replayed = "error"

(***************************************************************************)
(* Properties of the loop's ordering.                                      *)
(***************************************************************************)

\* The tool calls of turn t made so far, in the order they were made.
CallsOfTurn(t) == SelectSeq(tool_log, LAMBDA e : e.turn = t)

\* C20: the loop is strictly sequential: the tool calls of a turn are made in
\* the order the model emitted them, and no later model call and no tool call
\* of a later turn happens before every call of the turn has its result.
StrictlySequential ==
    /\ \A j, k \in DOMAIN tool_log : j < k => tool_log[j].turn <= tool_log[k].turn
    /\ \A t \in DOMAIN emitted :
          /\ Len(CallsOfTurn(t)) <= Len(emitted[t])
          /\ \A k \in DOMAIN CallsOfTurn(t) : CallsOfTurn(t)[k].id = emitted[t][k]
          /\ t < loop.model_calls => Len(CallsOfTurn(t)) = Len(emitted[t])
          /\ (t = loop.model_calls /\ loop.pc = "executing_tools")
                => Len(CallsOfTurn(t)) = Len(loop.tool_results)
    /\ \A k \in DOMAIN tool_log : tool_log[k].turn \in DOMAIN emitted

\* The second turn's first tool call has been made, after a first turn of two
\* different calls.
SecondTurnStarted ==
    /\ Len(emitted) = 2
    /\ Len(emitted[1]) = 2
    /\ Len(tool_log) = 3
    /\ tool_log[1].name # tool_log[2].name
    /\ tool_log[3].turn = 2

(***************************************************************************)
(* Properties of the loop's exit by the cap.                               *)
(***************************************************************************)

\* C21: when the loop leaves by the cap, the tool calls the returned response
\* carries were requested but not executed: the loop made none of them.
CappedCallsUnexecuted ==
    loop.pc = "capped" =>
        \A i \in DOMAIN final_response.tool_calls :
            \A k \in DOMAIN tool_log :
                ~ (/\ tool_log[k].turn = loop.model_calls
                   /\ tool_log[k].id = final_response.tool_calls[i].id)

(***************************************************************************)
(* Properties of the executor's waiting.                                   *)
(***************************************************************************)

\* C22: every tool execution is bounded by the executor's timeout: an
\* execute_tool_calls that waits for a tool stops waiting for it, whether or
\* not the tool ever returns.
ToolExecutionBounded ==
    (exec.pc = "awaiting") ~> (exec.pc # "awaiting")

(***************************************************************************)
(* Properties of the loop's handling of single tool calls.                 *)
(***************************************************************************)

\* C23: a tool call that names an unregistered tool yields an error result
\* for that call only: nothing is run for it, its tool_result holds the
\* not-found error under the call's id, the other calls of its turn are still
\* made, and the loop does not fail because of it.
UnknownToolIsAnErrorResult ==
    /\ Len(Delivered) = Len(tool_log)
    /\ \A k \in DOMAIN tool_log :
          tool_log[k].name \notin RegisteredTools
            => /\ ~tool_log[k].sent
               /\ tool_log[k].result_text = <<"exception", "tool_not_found">>
               /\ Delivered[k].content = tool_log[k].result_text
               /\ Delivered[k].tool_use_id = tool_log[k].id
               /\ ~(loop.pc = "executing_tools" /\ loop.model_calls = tool_log[k].turn)
                     => Len(CallsOfTurn(tool_log[k].turn))
                           = Len(emitted[tool_log[k].turn])
               /\ loop.pc = "failed" => loop.model_calls > tool_log[k].turn

\* A turn asked for an unregistered tool and then for a read on dev-1; the
\* read was run and the model was called again.
UnknownThenReadCall ==
    /\ Len(tool_log) >= 2
    /\ tool_log[1].name = "no_such_tool"
    /\ tool_log[2].turn = tool_log[1].turn
    /\ tool_log[2].sent
    /\ loop.model_calls = 2
    /\ loop.pc = "returned"

\* C25: the text of a pending_confirm tool result that goes back to the model
\* holds the preview, the confirm token and the instruction to call again
\* with it.
PendingTextCarriesToken ==
    \A k \in DOMAIN tool_log :
        (tool_log[k].effect = "require_confirm" /\ ~tool_log[k].sent)
          => \A part \in {"preview", "confirm_token", "reinvoke"} :
                \E i \in DOMAIN tool_log[k].result_text :
                    tool_log[k].result_text[i] = part

(***************************************************************************)
(* Properties of what a confirm token stands for.                          *)
(***************************************************************************)

\* C26: a confirm token authorizes only the call it was minted for: whenever
\* a token lets a gated ssh_exec call through, the arguments stored with the
\* token at its mint are the host and the command of that call.
TokenBoundToItsCall ==
    [][\A t \in TokenIds :
          (t \notin DOMAIN redeemed_for /\ t \in DOMAIN redeemed_for')
            => /\ t \in DOMAIN confirm_tokens
               /\ confirm_tokens[t].args.host = redeemed_for'[t].host
               /\ confirm_tokens[t].args.command = redeemed_for'[t].command]_vars

\* C27: once an ssh_exec_batch call has been let through with a valid confirm
\* token, the command is run on every listed host: no per-host call comes
\* back pending_confirm.
ConfirmedBatchRunsEverywhere ==
    (batch.effect = "require_confirm" /\ batch.pc \in {"gathering", "done"})
        => \A i \in DOMAIN batch.tasks : batch.tasks[i].status # "pending_confirm"

\* C28: every minted confirm token eventually leaves the engine's table, by
\* consumption or by expiry, a token that is never presented again included.
TokensEventuallyReaped ==
    \A t \in TokenIds :
        (t \in DOMAIN confirm_tokens) ~> (t \notin DOMAIN confirm_tokens)

(***************************************************************************)
(* Properties of the tool-call ids.                                        *)
(***************************************************************************)

\* C30: within one session's conversation no two tool calls share an id, in
\* the same turn or in different turns.
ToolCallIdsUnique ==
    \A t1, t2 \in DOMAIN emitted :
        \A i1 \in DOMAIN emitted[t1], i2 \in DOMAIN emitted[t2] :
            emitted[t1][i1] = emitted[t2][i2] => (t1 = t2 /\ i1 = i2)

(***************************************************************************)
(* Properties of the CLI's agent loop.                                     *)
(***************************************************************************)

====
